---- MODULE Spec2Model ----
(***************************************************************************)
(* Model of OpenWebUI_Model_Icon_Fetcher.py: discovery of model            *)
(* identifiers, icon resolution (existing file, Hugging-Face card image,   *)
(* provider badge, default.png) and the JSON mapping written by main.      *)
(*                                                                         *)
(* Strings are sequences of one-character strings, so that slugify, split, *)
(* lower and the substring test are computed character by character.       *)
(***************************************************************************)
EXTENDS Integers, Sequences, FiniteSets, TLC

\* Bounds of the model.
MaxPerSource == 1      \* identifiers one discovery source reports in a run
MaxInitFiles == 1      \* files already in the icon directory before the run

-----------------------------------------------------------------------------
\* Characters and strings

UpperChars == <<"A","B","C","D","E","F","G","H","I","J","K","L","M",
                "N","O","P","Q","R","S","T","U","V","W","X","Y","Z">>
LowerChars == <<"a","b","c","d","e","f","g","h","i","j","k","l","m",
                "n","o","p","q","r","s","t","u","v","w","x","y","z">>
DigitChars == {"0","1","2","3","4","5","6","7","8","9"}

Range(s) == {s[i] : i \in DOMAIN s}

\* str.lower() on one character
ToLower(c) ==
    IF c \in Range(UpperChars)
    THEN LowerChars[CHOOSE i \in DOMAIN UpperChars : UpperChars[i] = c]
    ELSE c

\* str.lower()
Lower(s) == [i \in DOMAIN s |-> ToLower(s[i])]

\* the characters the class [a-zA-Z0-9_-] accepts
IsSafe(c) ==
    c \in Range(UpperChars) \cup Range(LowerChars) \cup DigitChars \cup {"_", "-"}

\* re.sub(r'[^a-zA-Z0-9_-]+', '-', text): every maximal run of other
\* characters becomes one dash
RECURSIVE ReSub(_, _)
ReSub(text, inRun) ==
    IF text = <<>> THEN <<>>
    ELSE IF IsSafe(Head(text)) THEN <<Head(text)>> \o ReSub(Tail(text), FALSE)
    ELSE IF inRun THEN ReSub(Tail(text), TRUE)
    ELSE <<"-">> \o ReSub(Tail(text), TRUE)

RECURSIVE LStrip(_)
LStrip(s) == IF s # <<>> /\ Head(s) = "-" THEN LStrip(Tail(s)) ELSE s

RECURSIVE RStrip(_)
RStrip(s) ==
    IF s # <<>> /\ s[Len(s)] = "-" THEN RStrip(SubSeq(s, 1, Len(s) - 1)) ELSE s

\* str.strip('-')
Strip(s) == RStrip(LStrip(s))

Unknown == <<"u","n","k","n","o","w","n">>

slugify(text) ==
    LET clean == Lower(Strip(ReSub(text, FALSE)))
    IN  IF clean = <<>> THEN Unknown ELSE clean

\* str.split('/')
RECURSIVE Split(_, _)
Split(s, cur) ==
    IF s = <<>> THEN <<cur>>
    ELSE IF Head(s) = "/" THEN <<cur>> \o Split(Tail(s), <<>>)
    ELSE Split(Tail(s), Append(cur, Head(s)))

\* `t in s` for strings
Contains(s, t) ==
    \E i \in 0..(Len(s) - Len(t)) : SubSeq(s, i + 1, i + Len(t)) = t

-----------------------------------------------------------------------------
\* File names and URLs

PngExt      == <<".","p","n","g">>
DefaultName == <<"d","e","f","a","u","l","t">> \o PngExt
IconsUrl    == <<"/","i","c","o","n","s","/">>


\* f'/icons/{target.name}'
RelUrl(name) == IconsUrl \o name

HfPrefix == <<"https://huggingface.co/">>
HfSuffix == <<"/raw/main/card.png">>

\* provider_assets, in declaration order
provider_assets ==
    << [token |-> <<"g","p","t","-">>,
        url   |-> <<"https://raw.githubusercontent.com/openai/openai-python/master/assets/openai.png">>],
       [token |-> <<"c","l","a","u","d","e","-">>,
        url   |-> <<"https://cdn.clarifai.com/clarifai-logo.png">>] >>

\* Contents of a file: where its bytes came from and whether all of them are there
UserBytes      == <<"user-supplied">>
TransparentPng == <<"transparent_png">>
File(from, complete) == [from |-> from, complete |-> complete]

-----------------------------------------------------------------------------
\* The identifiers the discovery sources can report

Ids ==
    { <<"O","/","M">>,
      <<"o","-","m">>,
      <<"g","p","t","-","4">>,
      <<"m","y","-","g","p","t","-","4">>,
      <<"x","/","C","l","a","u","d","e","-","g","p","t","-">> }

\* What one call of download_file can meet
Outcomes == {"ok", "net_error", "open_error", "stream_error", "write_error"}
DiskErrors == {"open_error", "write_error"}


JsonOutcomes == {"ok", "open_error", "write_error"}

-----------------------------------------------------------------------------
\* The file system: fs.dir says whether icon_dir exists, fs.files maps the
\* name of every file in it to its contents.

WriteFile(fs, name, file) ==
    [dir |-> TRUE, files |-> (name :> file) @@ fs.files]

\* What a strategy reports: its return value, the file system it leaves, and
\* the network call it made (called, url; outcome is "none" without a call).
NoCall(fs) ==
    [ok |-> FALSE, fs |-> fs, called |-> FALSE, url |-> <<>>, outcome |-> "none"]

\* download_file: requests.get / raise_for_status may raise before anything
\* is touched (net_error); mkdir and open may raise (open_error); the body
\* may stop arriving (stream_error) or a write may fail (write_error) after
\* dest was opened 'wb'.  Every exception is caught and False is returned.
download_file(url, dest, fs, outcome) ==
    [ ok      |-> outcome = "ok",
      fs      |-> CASE outcome = "ok" -> WriteFile(fs, dest, File(url, TRUE))
                    [] outcome = "net_error" -> fs
                    [] outcome = "open_error" -> [fs EXCEPT !.dir = TRUE]
                    [] outcome \in {"stream_error", "write_error"} ->
                           WriteFile(fs, dest, File(url, FALSE)),
      called  |-> TRUE,
      url     |-> url,
      outcome |-> outcome ]

\* resolve_icon_path without the call of slugify
resolve_icon_path_raw(model_id) == model_id \o PngExt

\* resolve_icon_path: the file name under icon_dir
resolve_icon_path(model_id) == slugify(model_id) \o PngExt

\* download_hf_card_image, lines 131-135: the URL asked for, <<>> when the
\* identifier has fewer than two '/'-separated parts
hf_card_url(model_id) ==
    LET parts == Split(model_id, <<>>)
    IN  IF Len(parts) < 2 THEN <<>>
        ELSE LET repo == parts[1] \o <<"/">> \o parts[2]
             IN  HfPrefix \o repo \o HfSuffix

\* fallback_provider_badge whose loop keeps the last matching token instead
\* of returning at the first
provider_badge_url_last(model_id) ==
    LET hits == {i \in DOMAIN provider_assets :
                    Contains(Lower(model_id), provider_assets[i].token)}
    IN  IF hits = {} THEN <<>>
        ELSE provider_assets[CHOOSE i \in hits : \A j \in hits : i >= j].url

\* fallback_provider_badge, lines 149-152: the badge of the first token of
\* provider_assets found in the lower-cased identifier, <<>> when none is
provider_badge_url(model_id) ==
    LET hits == {i \in DOMAIN provider_assets :
                    Contains(Lower(model_id), provider_assets[i].token)}
    IN  IF hits = {} THEN <<>>
        ELSE provider_assets[CHOOSE i \in hits : \A j \in hits : i <= j].url

\* The three string computations above, per identifier the run can meet
TargetOf   == [m \in Ids |-> resolve_icon_path(m)]
CardUrlOf  == [m \in Ids |-> hf_card_url(m)]
BadgeUrlOf == [m \in Ids |-> provider_badge_url(m)]

download_hf_card_image(model_id, dest, fs, outcome) ==
    IF CardUrlOf[model_id] = <<>> THEN NoCall(fs)
    ELSE download_file(CardUrlOf[model_id], dest, fs, outcome)

fallback_provider_badge(model_id, dest, fs, outcome) ==
    IF BadgeUrlOf[model_id] = <<>> THEN NoCall(fs)
    ELSE download_file(BadgeUrlOf[model_id], dest, fs, outcome)

\* ensure_default_icon: write_bytes raises when icon_dir does not exist
ensure_default_icon(fs) ==
    IF DefaultName \in DOMAIN fs.files THEN [raised |-> FALSE, fs |-> fs]
    ELSE IF fs.dir
         THEN [raised |-> FALSE,
               fs |-> WriteFile(fs, DefaultName, File(TransparentPng, TRUE))]
         ELSE [raised |-> TRUE, fs |-> fs]

\* One strategy attempt as the log keeps it
Attempt(strategy, r, before, dest) ==
    [ strategy |-> strategy, called |-> r.called, url |-> r.url,
      outcome |-> r.outcome, ok |-> r.ok,
      changed |-> r.fs.files # before.files,
      present |-> dest \in DOMAIN r.fs.files ]

\* build_icon_map's loop body without the is_file test
build_icon_map_iter_nocheck(model, fs, o1, o2) ==
    LET target == TargetOf[model]
        card   == download_hf_card_image(model, target, fs, o1)
        a1     == Attempt("card", card, fs, target)
        badge  == fallback_provider_badge(model, target, card.fs, o2)
        a2     == Attempt("badge", badge, card.fs, target)
    IN  IF card.ok
        THEN [fs |-> card.fs, name |-> target,
              existed |-> target \in DOMAIN fs.files, attempts |-> <<a1>>]
        ELSE [fs |-> badge.fs,
              name |-> IF badge.ok THEN target ELSE DefaultName,
              existed |-> target \in DOMAIN fs.files, attempts |-> <<a1, a2>>]

\* build_icon_map's loop body with `if` in place of `elif`: the badge is asked
\* for whatever the card image answered
build_icon_map_iter_noelif(model, fs, o1, o2) ==
    LET target == TargetOf[model]
        card   == download_hf_card_image(model, target, fs, o1)
        a1     == Attempt("card", card, fs, target)
        badge  == fallback_provider_badge(model, target, card.fs, o2)
        a2     == Attempt("badge", badge, card.fs, target)
    IN  IF target \in DOMAIN fs.files
        THEN [fs |-> fs, name |-> target, existed |-> TRUE, attempts |-> <<>>]
        ELSE [fs |-> badge.fs,
              name |-> IF card.ok \/ badge.ok THEN target ELSE DefaultName,
              existed |-> FALSE, attempts |-> <<a1, a2>>]

\* The body of build_icon_map's loop for one model: the file system it
\* leaves, the file name the entry points at, and the attempts it made.
build_icon_map_iter(model, fs, o1, o2) ==
    LET target == TargetOf[model]
    IN  IF target \in DOMAIN fs.files
        THEN [fs |-> fs, name |-> target, existed |-> TRUE, attempts |-> <<>>]
        ELSE LET card == download_hf_card_image(model, target, fs, o1)
                 a1   == Attempt("card", card, fs, target)
             IN  IF card.ok
                 THEN [fs |-> card.fs, name |-> target, existed |-> FALSE,
                       attempts |-> <<a1>>]
                 ELSE LET badge == fallback_provider_badge(model, target, card.fs, o2)
                          a2    == Attempt("badge", badge, card.fs, target)
                      IN  [fs |-> badge.fs,
                           name |-> IF badge.ok THEN target ELSE DefaultName,
                           existed |-> FALSE,
                           attempts |-> <<a1, a2>>]

\* mapping[model] = rel_url
Record(mapping, model, name) == (model :> RelUrl(name)) @@ mapping

\* safe_write_json: open('w') truncates, so a failed dump leaves a partial file
safe_write_json(json, data, outcome) ==
    CASE outcome = "ok" -> [exists |-> TRUE, complete |-> TRUE, data |-> data]
      [] outcome = "open_error" -> json
      [] outcome = "write_error" -> [exists |-> TRUE, complete |-> FALSE, data |-> data]

-----------------------------------------------------------------------------
VARIABLES
    pc,          \* where main is: start, ensure, build, done, exited, crashed
    all_models,  \* main's all_models
    fs,          \* the icon directory
    fs0,         \* the icon directory when build_icon_map was called
    pending,     \* models the loop of build_icon_map has not reached yet
    mapping,     \* build_icon_map's mapping
    log,         \* per processed model: what the loop body did
    json_file,   \* the file at --static-json
    exit_code,   \* the process's exit status, -1 while it runs
    error        \* why the process ended early, "none" otherwise

vars == <<pc, all_models, fs, fs0, pending, mapping, log, json_file, exit_code, error>>

EmptyMap == [m \in {} |-> <<>>]

\* Names of files the icon directory may hold before the run
InitNames == {DefaultName} \cup {TargetOf[m] : m \in Ids}

InitFs ==
    {[dir |-> FALSE, files |-> EmptyMap]} \cup
    {[dir |-> TRUE, files |-> [n \in S |-> File(UserBytes, TRUE)]] :
        S \in {T \in SUBSET InitNames : Cardinality(T) <= MaxInitFiles}}

Init ==
    /\ pc = "start"
    /\ all_models = {}
    /\ fs \in InitFs
    /\ fs0 = fs
    /\ pending = {}
    /\ mapping = EmptyMap
    /\ log = EmptyMap
    /\ json_file = [exists |-> FALSE, complete |-> FALSE, data |-> EmptyMap]
    /\ exit_code = -1
    /\ error = "none"

\* What one discovery source can answer (the empty set also when it fails)
Replies == {S \in SUBSET Ids : Cardinality(S) <= MaxPerSource}

\* main, lines 218-234: gather the identifiers, exit 1 when there are none
GatherModels ==
    /\ pc = "start"
    /\ \E openai_key \in BOOLEAN, ollama_turbo_url \in BOOLEAN,
          ollama \in Replies, openai \in Replies, turbo \in Replies :
          LET found == ollama \cup (IF openai_key THEN openai ELSE {})
                              \cup (IF ollama_turbo_url THEN turbo ELSE {})
          IN  /\ all_models' = found
              /\ pc' = IF found = {} THEN "exited" ELSE "ensure"
              /\ exit_code' = IF found = {} THEN 1 ELSE exit_code
              /\ error' = IF found = {} THEN "NoModels" ELSE error
    /\ UNCHANGED <<fs, fs0, pending, mapping, log, json_file>>

\* main, lines 236-237 and the call of build_icon_map
EnsureDefaultIcon ==
    /\ pc = "ensure"
    /\ LET r == ensure_default_icon(fs)
       IN  /\ fs' = r.fs
           /\ fs0' = r.fs
           /\ pc' = IF r.raised THEN "crashed" ELSE "build"
           /\ exit_code' = IF r.raised THEN 1 ELSE exit_code
           /\ error' = IF r.raised THEN "DefaultIconWrite" ELSE error
    /\ pending' = all_models
    /\ mapping' = EmptyMap
    /\ log' = EmptyMap
    /\ UNCHANGED <<all_models, json_file>>

\* What the network and the disk can answer a strategy: nothing is drawn for
\* a strategy that has no URL to ask
NetOutcomes(url) == IF url = <<>> THEN {"none"} ELSE Outcomes

\* build_icon_map, one turn of the loop; a set is iterated in any order
BuildIconMapStep ==
    /\ pc = "build"
    /\ \E model \in pending :
       \E o1 \in NetOutcomes(CardUrlOf[model]), o2 \in NetOutcomes(BadgeUrlOf[model]) :
          LET r == build_icon_map_iter(model, fs, o1, o2)
          IN  /\ fs' = r.fs
              /\ mapping' = Record(mapping, model, r.name)
              /\ log' = (model :> [existed |-> r.existed, attempts |-> r.attempts,
                                   kept |-> r.fs = fs]) @@ log
              /\ pending' = pending \ {model}
    /\ UNCHANGED <<pc, all_models, fs0, json_file, exit_code, error>>

\* main, lines 239-244: the mapping is returned and written
WriteJson ==
    /\ pc = "build"
    /\ pending = {}
    /\ \E o \in JsonOutcomes :
          /\ json_file' = safe_write_json(json_file, mapping, o)
          /\ pc' = IF o = "ok" THEN "done" ELSE "crashed"
          /\ exit_code' = IF o = "ok" THEN 0 ELSE 1
          /\ error' = IF o = "ok" THEN error ELSE "JsonWrite"
    /\ UNCHANGED <<all_models, fs, fs0, pending, mapping, log>>

Next == GatherModels \/ EnsureDefaultIcon \/ BuildIconMapStep \/ WriteJson

Spec == Init /\ [][Next]_vars


-----------------------------------------------------------------------------
\* Properties

Processed  == DOMAIN log
DefaultUrl == RelUrl(DefaultName)

\* '/icons/<slugify(id)>.png', computed from slugify alone
SlugUrlOf == [m \in Ids |-> IconsUrl \o slugify(m) \o PngExt]

\* t is a prefix of s / t occurs somewhere in s
IsPrefix(t, s) == Len(t) <= Len(s) /\ SubSeq(s, 1, Len(t)) = t
Occurs(t, s)   == \E i \in 1..Len(s) : \E j \in i..Len(s) : SubSeq(s, i, j) = t

AllFailed(m) ==
    /\ ~log[m].existed
    /\ \A i \in DOMAIN log[m].attempts : ~log[m].attempts[i].ok

\* C1: a model whose destination <slug>.png was already a file when the loop
\* reached it has no strategy attempted (so no network call), the icon
\* directory is left as it was, and its entry is /icons/<slug>.png.
C1_ExistingIconReused ==
    \A m \in Processed :
        log[m].existed =>
            /\ log[m].attempts = <<>>
            /\ log[m].kept
            /\ mapping[m] = SlugUrlOf[m]

\* C1 witness: a model was processed whose destination already existed.
C1_Witness ==
    \E m \in Processed :
        /\ log[m].existed
        /\ SlugUrlOf[m] = mapping[m]
        /\ fs.files[TargetOf[m]].from = UserBytes

\* C2: for a model whose destination did not exist, the card image is
\* attempted first, the provider badge second and only after the card image
\* reported failure, and each is attempted at most once.
C2_StrategyOrder ==
    \A m \in Processed :
        ~log[m].existed =>
            LET a == log[m].attempts
            IN  /\ Len(a) \in {1, 2}
                /\ a[1].strategy = "card"
                /\ Len(a) = 2 => (a[2].strategy = "badge" /\ ~a[1].ok)
                /\ a[1].ok => Len(a) = 1

\* C2 witness: the card download was made and failed, then the badge download
\* was made; and another model's card download succeeded.
C2_Witness ==
    /\ \E m \in Processed :
          /\ Len(log[m].attempts) = 2
          /\ log[m].attempts[1].called
          /\ log[m].attempts[2].called
    /\ \E m \in Processed :
          /\ Len(log[m].attempts) = 1
          /\ log[m].attempts[1].ok

\* C3 (as claimed): when every strategy reported failure for a model whose
\* destination did not exist, its entry is /icons/default.png and no file is
\* at <slug>.png once the model has been processed.
C3_AllFailNoFile ==
    \A m \in Processed :
        AllFailed(m) =>
            /\ mapping[m] = DefaultUrl
            /\ ~log[m].attempts[Len(log[m].attempts)].present

\* C4 (as claimed): an attempt that returned True left a file at the
\* destination, and an attempt that returned False left the files of the icon
\* directory as they were.
C4_AttemptFrame ==
    \A m \in Processed :
        \A i \in DOMAIN log[m].attempts :
            LET a == log[m].attempts[i]
            IN  /\ a.ok => a.present
                /\ ~a.ok => ~a.changed

\* build_icon_map run over the models in a given order, with the outcome of
\* every (strategy, model) download given by tab
RECURSIVE BuildAll(_, _, _, _)
BuildAll(order, dir, acc, tab) ==
    IF order = <<>> THEN acc
    ELSE LET m == Head(order)
             r == build_icon_map_iter(m, dir, tab[m].card, tab[m].badge)
         IN  BuildAll(Tail(order), r.fs, Record(acc, m, r.name), tab)

Orders(S) ==
    {p \in [1..Cardinality(S) -> S] : \A i, j \in DOMAIN p : p[i] = p[j] => i = j}

\* The outcome tables that agree with every download the run made
Agrees(m, i, o) ==
    \/ Len(log[m].attempts) < i
    \/ ~log[m].attempts[i].called
    \/ log[m].attempts[i].outcome = o

Tables ==
    {t \in [all_models -> [card : Outcomes, badge : Outcomes]] :
        \A m \in all_models : Agrees(m, 1, t[m].card) /\ Agrees(m, 2, t[m].badge)}

\* C5 (as claimed): with the models, the icon directory at the call and the
\* outcome of every (strategy, model) download fixed, build_icon_map returns
\* the same mapping whatever the order of the iteration.
C5_OrderIndependent ==
    (pc = "build" /\ pending = {}) =>
        \A t \in Tables : \A p \in Orders(all_models) :
            BuildAll(p, fs0, EmptyMap, t) = mapping

Ended == pc \in {"done", "exited", "crashed"}

\* C6 (as claimed): a run without models ends non-zero with neither the JSON
\* file nor an icon file written; a run with models, whatever the icon
\* directory was (missing included), writes the JSON file and ends with 0.
\* Runs in which writing the JSON file itself fails are left aside.
C6_TwoEndings ==
    Ended =>
        IF all_models = {}
        THEN exit_code # 0 /\ ~json_file.exists /\ fs = fs0
        ELSE error # "JsonWrite" =>
                 exit_code = 0 /\ json_file.exists /\ json_file.complete

\* C7: the mapping has one entry per model the loop has processed (all of
\* all_models when it returns), keyed by the identifier itself, and every
\* value is /icons/<slugify(id)>.png of its own key or /icons/default.png.
C7_MappingShape ==
    pc \in {"build", "done"} =>
        /\ DOMAIN mapping = all_models \ pending
        /\ \A m \in DOMAIN mapping : mapping[m] \in {SlugUrlOf[m], DefaultUrl}
        /\ pc = "done" => (json_file.data = mapping /\ DOMAIN mapping = all_models)

\* C7 witness: a finished run with two identifiers of one slug, one of them
\* not its own slug, one entry on the slug's file and one on default.png.
C7_Witness ==
    /\ pc = "done"
    /\ \E m, n \in DOMAIN mapping :
          /\ m # n
          /\ slugify(m) = slugify(n)
          /\ slugify(m) # m
          /\ mapping[m] = SlugUrlOf[m]
          /\ mapping[n] = DefaultUrl

\* Per identifier: the provider tokens occurring in it, and those it starts with
TokensIn ==
    [m \in Ids |-> {i \in DOMAIN provider_assets :
                       Occurs(provider_assets[i].token, Lower(m))}]
TokensAtStart ==
    [m \in Ids |-> {i \in DOMAIN provider_assets :
                       IsPrefix(provider_assets[i].token, Lower(m))}]

BadgeAttempts ==
    {x \in [m : Processed, i : {1, 2}] :
        /\ x.i \in DOMAIN log[x.m].attempts
        /\ log[x.m].attempts[x.i].strategy = "badge"}

\* C8 (as claimed): the badge strategy makes its download exactly when a
\* provider token is a prefix of the lower-cased identifier.
C8_PrefixMatch ==
    \A x \in BadgeAttempts :
        log[x.m].attempts[x.i].called <=> TokensAtStart[x.m] # {}

\* C8 (amended): the badge strategy makes its download exactly when a
\* provider token occurs anywhere in the lower-cased identifier, and asks for
\* the badge of the first such token in declaration order; when no token
\* occurs it reports failure without a network call.
C8_SubstringMatch ==
    \A x \in BadgeAttempts :
        LET a == log[x.m].attempts[x.i]
            T == TokensIn[x.m]
        IN  /\ a.called <=> T # {}
            /\ a.called =>
                  \E i \in T : /\ \A j \in T : i <= j
                               /\ a.url = provider_assets[i].url
            /\ ~a.called => ~a.ok /\ ~a.changed

\* C8 witness: a badge download made for an identifier that holds two tokens,
\* neither at its start, the later-declared one first in the text.
C8_Witness ==
    \E x \in BadgeAttempts :
        /\ log[x.m].attempts[x.i].called
        /\ TokensAtStart[x.m] = {}
        /\ Cardinality(TokensIn[x.m]) = 2
        /\ log[x.m].attempts[x.i].url = provider_assets[1].url

\* C9 (as claimed): every call of ensure_default_icon leaves a default.png in
\* the icon directory, with the bytes it had when it was already there and
\* the embedded placeholder otherwise, changes no other file, and makes no
\* network call (the log of downloads stays empty).
C9_DefaultEnsured ==
    [][pc = "ensure" =>
          /\ DefaultName \in DOMAIN fs'.files
          /\ fs'.files[DefaultName] =
                IF DefaultName \in DOMAIN fs.files
                THEN fs.files[DefaultName]
                ELSE File(TransparentPng, TRUE)
          /\ \A n \in DOMAIN fs.files : fs'.files[n] = fs.files[n]
          /\ DOMAIN fs'.files = DOMAIN fs.files \cup {DefaultName}
          /\ log' = EmptyMap]_vars

\* C10 (as claimed): a run in which writing an icon file met a disk error
\* (mkdir, open or write), or in which writing the JSON file failed, ends
\* aborted with a non-zero status.
C10_PersistenceFatal ==
    /\ error = "JsonWrite" => (pc = "crashed" /\ exit_code # 0)
    /\ Ended =>
          \A m \in Processed : \A i \in DOMAIN log[m].attempts :
              log[m].attempts[i].outcome \in DiskErrors => exit_code # 0

====
